---- MODULE Spec2Model ----
(***************************************************************************)
(* Model of the HNG task assistant Slack bot.                              *)
(*                                                                         *)
(*   src/main.py        the bot: registration modal, announcement handler, *)
(*                      keyword classifier, summarizer wrapper, DM fanout  *)
(*   src/summarizer.py  the task summarizer: detect_track, structured      *)
(*                      extraction, deliverables table, summarize_task     *)
(*                                                                         *)
(* Python str values are TLA+ strings; Len, SubSeq and \o act on them      *)
(* character by character.  Python's None is the value None below.         *)
(***************************************************************************)
EXTENDS Integers, Sequences, FiniteSets, TLC

VARIABLES
    store,      \* rows of table UserTrack, in insertion order
    reg,        \* handle_view_submission coroutines, one per slot
    ev,         \* the handle_message_events coroutine
    lastWrite,  \* history: per user, the payload of the last committed upsert
    prevWrite,  \* history: per user, the payload of the committed upsert before it
    submitted,  \* history: per user, the tracks of all committed upserts
    nRegs,      \* number of view submissions received so far
    nEvents,    \* number of message events received so far
    call        \* a call of a function of src/summarizer.py or of a classifier

vars == <<store, reg, ev, lastWrite, prevWrite, submitted, nRegs, nEvents, call>>

None == "<None>"

-----------------------------------------------------------------------------
(* Python str helpers *)

UpperChars == "ABCDEFGHIJKLMNOPQRSTUVWXYZ"
LowerChars == "abcdefghijklmnopqrstuvwxyz"

Min(a, b) == IF a < b THEN a ELSE b

CharAt(s, i) == SubSeq(s, i, i)

\* s[i:] and s[:n] of Python, 1-based start i
From(s, i) == SubSeq(s, i, Len(s))
Take(s, n) == SubSeq(s, 1, Min(n, Len(s)))

LowerChar(c) ==
    IF \E i \in 1..Len(UpperChars) : CharAt(UpperChars, i) = c
    THEN CharAt(LowerChars, CHOOSE i \in 1..Len(UpperChars) : CharAt(UpperChars, i) = c)
    ELSE c

UpperChar(c) ==
    IF \E i \in 1..Len(LowerChars) : CharAt(LowerChars, i) = c
    THEN CharAt(UpperChars, CHOOSE i \in 1..Len(LowerChars) : CharAt(LowerChars, i) = c)
    ELSE c

\* str.lower(), character by character; the recursion halves the string
RECURSIVE lower(_)
lower(s) ==
    IF Len(s) <= 1 THEN LowerChar(s)
    ELSE LET h == Len(s) \div 2
         IN  lower(SubSeq(s, 1, h)) \o lower(SubSeq(s, h + 1, Len(s)))

\* str.capitalize(): first character upper-cased, the rest lower-cased
capitalize(s) == IF s = "" THEN "" ELSE UpperChar(CharAt(s, 1)) \o lower(From(s, 2))

\* kw in t
Contains(t, kw) ==
    \E i \in 1..(Len(t) - Len(kw) + 1) : SubSeq(t, i, i + Len(kw) - 1) = kw

\* t.startswith(p, i - 1)
StartsAt(t, p, i) == i + Len(p) - 1 <= Len(t) /\ SubSeq(t, i, i + Len(p) - 1) = p

IsSpace(c) == c \in {" ", "\n", "\t"}

\* first index >= i of t that holds no whitespace (Len(t) + 1 if none)
RECURSIVE SkipSpace(_, _)
SkipSpace(t, i) ==
    IF i <= Len(t) /\ IsSpace(CharAt(t, i)) THEN SkipSpace(t, i + 1) ELSE i

\* first index >= i of t that holds whitespace (Len(t) + 1 if none)
RECURSIVE SkipNonSpace(_, _)
SkipNonSpace(t, i) ==
    IF i <= Len(t) /\ ~IsSpace(CharAt(t, i)) THEN SkipNonSpace(t, i + 1) ELSE i

\* str.strip()
RECURSIVE RStrip(_)
RStrip(s) ==
    IF s # "" /\ IsSpace(CharAt(s, Len(s))) THEN RStrip(SubSeq(s, 1, Len(s) - 1)) ELSE s
strip(s) == RStrip(From(s, SkipSpace(s, 1)))

\* a token of s starts at index i: no whitespace there, whitespace before
TokenStartsAt(s, i) == ~IsSpace(CharAt(s, i)) /\ (i = 1 \/ IsSpace(CharAt(s, i - 1)))

\* str.split(): the whitespace-delimited tokens of s that start at an index
\* of lo..hi, in order; the recursion halves the range
RECURSIVE SplitRange(_, _, _)
SplitRange(s, lo, hi) ==
    IF lo > hi THEN <<>>
    ELSE IF lo = hi
         THEN IF TokenStartsAt(s, lo) THEN <<SubSeq(s, lo, SkipNonSpace(s, lo) - 1)>> ELSE <<>>
         ELSE LET mid == (lo + hi) \div 2
              IN  SplitRange(s, lo, mid) \o SplitRange(s, mid + 1, hi)
split(s) == SplitRange(s, 1, Len(s))

\* sep.join(parts); the recursion halves the list
RECURSIVE join(_, _)
join(sep, parts) ==
    IF parts = <<>> THEN ""
    ELSE IF Len(parts) = 1 THEN parts[1]
    ELSE LET h == Len(parts) \div 2
         IN  join(sep, SubSeq(parts, 1, h)) \o sep \o join(sep, SubSeq(parts, h + 1, Len(parts)))

-----------------------------------------------------------------------------
(* src/main.py: keyword classifier *)

\* The dict TRACK_KEYWORDS in insertion order, which is its iteration order.
TRACK_KEYWORDS == <<
    [track |-> "backend",   kwlist |-> <<"backend", "backend wizards", "server", "api",
                                         "stage 0 backend", "profile endpoint">>],
    [track |-> "frontend",  kwlist |-> <<"frontend", "ui", "react", "vue", "stage 1 frontend">>],
    [track |-> "design",    kwlist |-> <<"design", "ui/ux", "ui-ux", "designers", "graphics", "ux">>],
    [track |-> "devops",    kwlist |-> <<"devops", "nginx", "blue/green", "infrastructure">>],
    [track |-> "marketing", kwlist |-> <<"sales", "marketing">>],
    [track |-> "video",     kwlist |-> <<"video", "editing", "video editing">>],
    [track |-> "pm",        kwlist |-> <<"pm", "product", "project manager">>],
    [track |-> "no-code",   kwlist |-> <<"no-code", "no code", "automation">>] >>

\* for kw in kwlist: if kw in t: return ...   (TRUE iff the inner loop returns)
RECURSIVE AnyKeyword(_, _, _)
AnyKeyword(kwlist, t, j) ==
    IF j > Len(kwlist) THEN FALSE
    ELSE IF Contains(t, kwlist[j]) THEN TRUE
    ELSE AnyKeyword(kwlist, t, j + 1)

\* the loops of a classifier over its table, from entry i on; dflt if none returns
RECURSIVE ScanTable(_, _, _, _)
ScanTable(table, t, i, dflt) ==
    IF i > Len(table) THEN dflt
    ELSE IF AnyKeyword(table[i].kwlist, t, 1) THEN table[i].track
    ELSE ScanTable(table, t, i + 1, dflt)

\* the same loops run from the last entry down to the first
RECURSIVE ScanTableReversed(_, _, _, _)
ScanTableReversed(table, t, i, dflt) ==
    IF i < 1 THEN dflt
    ELSE IF AnyKeyword(table[i].kwlist, t, 1) THEN table[i].track
    ELSE ScanTableReversed(table, t, i - 1, dflt)

detect_track_by_keywords_lastfirst(text) ==
    ScanTableReversed(TRACK_KEYWORDS, lower(text), Len(TRACK_KEYWORDS), None)

\* a classifier that answers the first track of the table when none matches
detect_track_by_keywords_firstdefault(text) ==
    ScanTable(TRACK_KEYWORDS, lower(text), 1, TRACK_KEYWORDS[1].track)

detect_track_by_keywords(text) == ScanTable(TRACK_KEYWORDS, lower(text), 1, None)

-----------------------------------------------------------------------------
(* src/summarizer.py *)

\* The chain of "if any(word in text ...)" statements of detect_track, in order.
DETECT_TRACK_RULES == <<
    [track |-> "frontend", kwlist |-> <<"react", "tailwind", "frontend", "ui ", "css", "chakra",
                                        "nextjs", "vue", "design system">>],
    [track |-> "uiux",     kwlist |-> <<"figma", "wireframe", "prototype", "ui/ux", "design",
                                        "user flow">>],
    [track |-> "backend",  kwlist |-> <<"api", "database", "backend", "server", "django",
                                        "express", "fastapi", "spring", "endpoint">>],
    [track |-> "mobile",   kwlist |-> <<"android", "flutter", "kotlin", "swift", "mobile">>],
    [track |-> "devops",   kwlist |-> <<"docker", "deployment", "devops", "ci/cd", "kubernetes",
                                        "aws", "infrastructure">>],
    [track |-> "data",     kwlist |-> <<"data", "machine learning", "dataset", "ai", "model">>] >>

detect_track_lastfirst(task_text) ==
    ScanTableReversed(DETECT_TRACK_RULES, lower(task_text), Len(DETECT_TRACK_RULES), "general")

detect_track(task_text) == ScanTable(DETECT_TRACK_RULES, lower(task_text), 1, "general")


\* re.search(r"(deadline|due|submission)\s*[:\-]*\s*(.*)", task_text, re.IGNORECASE)
DEADLINE_LABELS == <<"deadline", "due", "submission">>

\* the alternatives of group 1 that match at index i, in the order they are tried
LabelsAt(t, i) ==
    SelectSeq(DEADLINE_LABELS,
              LAMBDA lab : lower(SubSeq(t, i, Min(Len(t), i + Len(lab) - 1))) = lab)

\* first index >= i of t that holds neither ":" nor "-"
RECURSIVE SkipSeparators(_, _)
SkipSeparators(t, i) ==
    IF i <= Len(t) /\ CharAt(t, i) \in {":", "-"} THEN SkipSeparators(t, i + 1) ELSE i

\* first index >= i of t that holds a newline: "." matches anything else
RECURSIVE SkipToNewline(_, _)
SkipToNewline(t, i) ==
    IF i <= Len(t) /\ CharAt(t, i) # "\n" THEN SkipToNewline(t, i + 1) ELSE i

\* group(2) of the match that starts at index i with label lab
DeadlineGroup2(t, i, lab) ==
    LET a == SkipSpace(t, i + Len(lab))
        b == SkipSeparators(t, a)
        c == SkipSpace(t, b)
    IN  SubSeq(t, c, SkipToNewline(t, c) - 1)

\* deadline_match.group(2).strip() if deadline_match else "Not specified"
ExtractDeadline(t) ==
    LET starts == {i \in 1..Len(t) : LabelsAt(t, i) # <<>>}
    IN  IF starts = {} THEN "Not specified"
        ELSE LET i == CHOOSE k \in starts : \A m \in starts : k <= m
             IN  strip(DeadlineGroup2(t, i, LabelsAt(t, i)[1]))

\* re.findall(r"(GET|POST|DELETE|PUT|PATCH)\s+[^\s]+", task_text)
ENDPOINT_VERBS == <<"GET", "POST", "DELETE", "PUT", "PATCH">>

\* the pattern matches at index i with verb v: v, then whitespace, then a
\* run of non-whitespace characters
VerbMatchesAt(t, i, v) ==
    /\ StartsAt(t, v, i)
    /\ i + Len(v) <= Len(t)
    /\ IsSpace(CharAt(t, i + Len(v)))
    /\ SkipSpace(t, i + Len(v)) <= Len(t)

\* the match at index i: group 1, the whole match, and the index after it
EndpointMatchAt(t, i) ==
    LET vs == SelectSeq(ENDPOINT_VERBS, LAMBDA v : VerbMatchesAt(t, i, v))
        e  == SkipNonSpace(t, SkipSpace(t, i + Len(vs[1])))
    IN  IF vs = <<>> THEN [ok |-> FALSE]
        ELSE [ok |-> TRUE, group1 |-> vs[1], group0 |-> SubSeq(t, i, e - 1), end |-> e]

\* the non-overlapping matches of the pattern, scanning from index i on
RECURSIVE EndpointMatches(_, _)
EndpointMatches(t, i) ==
    IF i > Len(t) THEN <<>>
    ELSE LET m == EndpointMatchAt(t, i)
         IN  IF m.ok THEN <<m>> \o EndpointMatches(t, m.end)
             ELSE EndpointMatches(t, i + 1)

\* findall with one capturing group in the pattern returns group 1 of each match
findall_endpoints(t) ==
    LET ms == EndpointMatches(t, 1) IN [k \in 1..Len(ms) |-> ms[k].group1]

extract_structured_info(task_text) ==
    LET track == detect_track(task_text)
    IN  [endpoints |-> IF track = "backend" THEN findall_endpoints(task_text) ELSE <<>>,
         deadline  |-> ExtractDeadline(task_text),
         track     |-> track]

DELIVERABLES == [
    frontend |-> <<"Build responsive UI components", "Implement state management",
                   "Add loading & error states", "Deploy demo (Vercel/Netlify)",
                   "Provide README + screenshots">>,
    uiux     |-> <<"Create wireframes + UI mockups", "Develop responsive high-fidelity designs",
                   "Share Figma link + prototype", "Deliver design system components",
                   "Export assets + documentation">>,
    backend  |-> <<"Implement API endpoints", "Add validation + DB persistence",
                   "Include testing (if needed)", "Provide Postman/API docs",
                   "Add setup instructions">>,
    mobile   |-> <<"Build mobile screens and navigation", "Implement state handling",
                   "Ensure responsiveness + offline mode", "Deploy build (APK/TestFlight)",
                   "Provide demo video + README">>,
    devops   |-> <<"Setup CI/CD pipeline", "Deploy scalable environment",
                   "Add monitoring + logging", "Provide Docker/Terraform if needed",
                   "Write deployment docs">>,
    data     |-> <<"Prepare and clean dataset", "Train + evaluate model or pipeline",
                   "Show performance metrics", "Provide notebooks/code",
                   "Write insights report">>,
    general  |-> <<"Understand requirements", "Deliver working solution",
                   "Test thoroughly", "Write clear documentation">> ]

get_deliverables_for_track(track) ==
    IF track \in DOMAIN DELIVERABLES THEN DELIVERABLES[track] ELSE DELIVERABLES["general"]

\* the summarizer pipeline raised instead of returning a summary
Raised == "<raised>"

MAX_TOKENS == 700
FALLBACK_SUMMARY == "Summary unavailable - task processed without AI model."

\* a truncation that keeps one token more than the maximum
TruncateTaskOffByOne(task_text) ==
    IF Len(split(task_text)) > MAX_TOKENS
    THEN join(" ", SubSeq(split(task_text), 1, MAX_TOKENS + 1))
    ELSE task_text

\* the text handed to the summarizer pipeline and to extract_structured_info
TruncateTask(task_text) ==
    IF Len(split(task_text)) > MAX_TOKENS
    THEN join(" ", SubSeq(split(task_text), 1, MAX_TOKENS))
    ELSE task_text

\* "\n".join([f"- {d}" for d in deliverables])
DeliverablesText(track) ==
    LET ds == get_deliverables_for_track(track)
    IN  join("\n", [k \in 1..Len(ds) |-> "- " \o ds[k]])

\* The backquotes of the code span around an endpoint are written as quotes.
EndpointsText(track, endpoints) ==
    IF track = "backend" /\ endpoints # <<>>
    THEN join("\n", [k \in 1..Len(endpoints) |-> "- '" \o endpoints[k] \o "'"])
    ELSE "_Not applicable_"

AiSummaryUncaught(ai) == ai

\* the try/except around the summarizer call: ai is what the pipeline returns
\* for the truncated text, or Raised
AiSummary(ai) == IF ai = Raised THEN FALLBACK_SUMMARY ELSE ai

\* The emoji of the section headings are left out of the strings.
summarize_task(task_text, forced_track, ai) ==
    LET text       == TruncateTask(task_text)
        ai_summary == AiSummary(ai)
        structured == extract_structured_info(text)
        track      == IF forced_track \in {None, ""} THEN structured.track ELSE forced_track
    IN  strip("\n*New " \o capitalize(track) \o " Task Summary*\n\n"
              \o "*Summary:* " \o ai_summary \o "\n\n"
              \o "*Deadline:* " \o structured.deadline \o "\n\n"
              \o "*Key Endpoints (if any):*\n"
              \o EndpointsText(track, structured.endpoints) \o "\n\n"
              \o "*Key Deliverables:*\n"
              \o DeliverablesText(track) \o "\n")

-----------------------------------------------------------------------------
(* src/main.py: summarizer wrapper, fanout text, table UserTrack *)

SUMMARIZER_INPUT_CHARS == 15000
FALLBACK_CHARS == 400

\* hf is what the Hugging Face pipeline returns, or Raised.  An except clause
\* that did not catch would let the exception out of summarize_text.
summarize_text_uncaught(text, hf) == hf

summarize_text(text, hf) ==
    LET t == IF Len(text) > SUMMARIZER_INPUT_CHARS THEN Take(text, SUMMARIZER_INPUT_CHARS)
             ELSE text
    IN  IF hf = Raised
        THEN Take(strip(t), FALLBACK_CHARS) \o (IF Len(t) > FALLBACK_CHARS THEN "..." ELSE "")
        ELSE hf

\* dm_text of notify_track_users
DmText(title, summary, slack_link) ==
    "*" \o title \o "*  \n" \o summary \o "\n\n"
    \o (IF slack_link \notin {None, ""}
        THEN "<" \o slack_link \o "|View original announcement>\n" ELSE "")
    \o "\n_This was sent by HNG Task Assistant_"

\* select(UserTrack).where(UserTrack.track == track)).all(), as the user ids
SelectByTrack(rows, track) ==
    LET hit == SelectSeq(rows, LAMBDA r : r.track = track)
    IN  [k \in 1..Len(hit) |-> hit[k].user_id]

\* select(UserTrack).where(UserTrack.user_id == user_id)).first(): index or 0
FirstRowOf(rows, user_id) ==
    IF \E k \in 1..Len(rows) : rows[k].user_id = user_id
    THEN CHOOSE k \in 1..Len(rows) :
            /\ rows[k].user_id = user_id
            /\ \A m \in 1..(k - 1) : rows[m].user_id # user_id
    ELSE 0

NewRow(rows, user_id, track, contact, email) ==
    [id |-> Len(rows) + 1, user_id |-> user_id, track |-> track,
     contact |-> contact, email |-> email]

\* an upsert that never looks for the existing row
SaveAlwaysInsert(rows, user_id, track, contact, email) ==
    Append(rows, NewRow(rows, user_id, track, contact, email))

\* an upsert that merges: a payload without an email keeps the stored one
SaveMergeEmail(rows, user_id, track, contact, email) ==
    LET k == FirstRowOf(rows, user_id)
    IN  IF k # 0
        THEN [rows EXCEPT ![k].track = track, ![k].contact = contact,
                          ![k].email = IF email = None THEN @ ELSE email]
        ELSE Append(rows, NewRow(rows, user_id, track, contact, email))

\* the "save to DB" block of handle_view_submission: one session, one commit
SaveUserTrack(rows, user_id, track, contact, email) ==
    LET k == FirstRowOf(rows, user_id)
    IN  IF k # 0
        THEN [rows EXCEPT ![k].track = track, ![k].contact = contact, ![k].email = email]
        ELSE Append(rows, NewRow(rows, user_id, track, contact, email))

-----------------------------------------------------------------------------
(* Bounds and inputs *)

MaxRegs == 2        \* view submissions per run
MaxEvents == 1      \* message events per run

Users == {"U1", "U2", "U3"}
RegSlots == {1, 2}

\* the values of the options of the track select of the modal
FORM_TRACKS == {"backend", "frontend", "design", "devops", "marketing", "video", "pm", "no-code"}

\* the payloads of a submission, as (track, contact, email): two options of the
\* form, a track value that is no option of the form, and a submission whose
\* track select holds no selected option
Submissions == {
    <<"backend", "slack", None>>,
    <<"frontend", "email", "user@example.com">>,
    <<"blockchain", "slack", None>>,
    <<None, "slack", None>> }

\* event["text"]; None for an event without text
EventTexts == {
    "@channel Backend task: build the API",
    "New task for UI/UX designers",
    "task reminder",
    "backend server is down",
    None }

EventSubtypes == {None, "message_changed"}

\* what the Hugging Face pipeline, chat_getPermalink and chat_postMessage give
PipelineOutcomes == {"A short summary.", Raised}
PermalinkOutcomes == {"https://slack/p1", None, Raised}

-----------------------------------------------------------------------------
(* src/main.py: handle_view_submission *)

RegIdle == [pc |-> "idle", user_id |-> None, track |-> None, contact |-> None, email |-> None]

EvIdle == [pc |-> "idle", text |-> "", subtype |-> None, classified |-> FALSE,
           track |-> None, title |-> "", summary |-> "", slack_link |-> None,
           users |-> <<>>, attempts |-> <<>>]

NoCall == [fn |-> "none"]

BotInit ==
    /\ store = <<>>
    /\ reg = [s \in RegSlots |-> RegIdle]
    /\ ev = EvIdle
    /\ lastWrite = [u \in Users |-> <<>>]
    /\ prevWrite = [u \in Users |-> <<>>]
    /\ submitted = [u \in Users |-> {}]
    /\ nRegs = 0
    /\ nEvents = 0

Init == BotInit /\ call = NoCall

\* Slack delivers a view_submission; the coroutine runs up to "await ack()"
ViewSubmission(s, u, p) ==
    /\ reg[s].pc = "idle"
    /\ nRegs < MaxRegs
    /\ reg' = [reg EXCEPT ![s] = [pc |-> "acked", user_id |-> u, track |-> p[1],
                                  contact |-> p[2], email |-> p[3]]]
    /\ nRegs' = nRegs + 1
    /\ UNCHANGED <<store, ev, lastWrite, prevWrite, submitted, nEvents, call>>

\* from the return of ack() to the end of the handler: the payload is read and
\* saved without an await in between, then chat_postEphemeral is awaited and
\* whatever it raises is passed over, so its result changes nothing.  A
\* submission without a selected option raises at selected_option["value"],
\* before the session is opened.
SaveSubmission(s) ==
    /\ reg[s].pc = "acked"
    /\ IF reg[s].track = None
       THEN /\ reg' = [reg EXCEPT ![s] = RegIdle]
            /\ UNCHANGED <<store, lastWrite, prevWrite, submitted>>
       ELSE /\ store' = SaveUserTrack(store, reg[s].user_id, reg[s].track,
                                      reg[s].contact, reg[s].email)
            /\ lastWrite' = [lastWrite EXCEPT ![reg[s].user_id] =
                                <<reg[s].track, reg[s].contact, reg[s].email>>]
            /\ prevWrite' = [prevWrite EXCEPT ![reg[s].user_id] = lastWrite[reg[s].user_id]]
            /\ submitted' = [submitted EXCEPT ![reg[s].user_id] = @ \cup {reg[s].track}]
            /\ reg' = [reg EXCEPT ![s] = RegIdle]
    /\ UNCHANGED <<ev, nRegs, nEvents, call>>

-----------------------------------------------------------------------------
(* src/main.py: handle_message_events and notify_track_users *)

is_announcement(text) ==
    Contains(text, "@channel") \/ Contains(lower(text), "stage") \/ Contains(lower(text), "task")

\* a handler without the subtype test
StartHandlerAnySubtype(raw, subtype, hf) ==
    LET text    == IF raw = None THEN "" ELSE raw
        seen    == [EvIdle EXCEPT !.text = text, !.subtype = subtype]
        track   == detect_track_by_keywords(text)
        summary == summarize_text(text, hf)
    IN  IF ~is_announcement(text) THEN [seen EXCEPT !.pc = "done"]
        ELSE IF track \in {None, ""}
             THEN [seen EXCEPT !.pc = "done", !.classified = TRUE, !.track = track]
        ELSE IF summary = Raised
             THEN [seen EXCEPT !.pc = "raised", !.classified = TRUE, !.track = track]
        ELSE [seen EXCEPT !.pc = "permalink", !.classified = TRUE, !.track = track,
                          !.title = "New " \o capitalize(track) \o " Announcement",
                          !.summary = summary]

\* handle_message_events up to "await chat_getPermalink": the state of the
\* coroutine when it suspends, returns or raises
StartHandler(raw, subtype, hf) ==
    LET text    == IF raw = None THEN "" ELSE raw
        seen    == [EvIdle EXCEPT !.text = text, !.subtype = subtype]
        track   == detect_track_by_keywords(text)
        summary == summarize_text(text, hf)
    IN  IF subtype # None THEN [seen EXCEPT !.pc = "done"]
        ELSE IF ~is_announcement(text) THEN [seen EXCEPT !.pc = "done"]
        ELSE IF track \in {None, ""}
             THEN [seen EXCEPT !.pc = "done", !.classified = TRUE, !.track = track]
        ELSE IF summary = Raised
             THEN [seen EXCEPT !.pc = "raised", !.classified = TRUE, !.track = track]
        ELSE [seen EXCEPT !.pc = "permalink", !.classified = TRUE, !.track = track,
                          !.title = "New " \o capitalize(track) \o " Announcement",
                          !.summary = summary]

\* StartHandler tabulated over the inputs of the model
StartHandlerTable ==
    {<<x, StartHandler(x[1], x[2], x[3])>> :
        x \in EventTexts \X EventSubtypes \X PipelineOutcomes}

\* Slack delivers a message event; the coroutine runs up to its first await.
\* One message event is followed at a time: the next one is taken up when the
\* handler of the previous one has ended.
MessageEvent(raw, subtype, hf) ==
    /\ ev.pc \in {"idle", "done", "raised"}
    /\ nEvents < MaxEvents
    /\ ev' = (CHOOSE p \in StartHandlerTable : p[1] = <<raw, subtype, hf>>)[2]
    /\ nEvents' = nEvents + 1
    /\ UNCHANGED <<store, reg, lastWrite, prevWrite, submitted, nRegs, call>>

\* a permalink lookup whose exception is not caught
AfterPermalinkUncaught(e, res, rows) ==
    IF res = Raised THEN [e EXCEPT !.pc = "raised"]
    ELSE LET users == SelectByTrack(rows, e.track)
         IN  [e EXCEPT !.slack_link = res, !.users = users,
                       !.pc = IF users = <<>> THEN "done" ELSE "sending"]

\* from the return of chat_getPermalink to the first "await chat_postMessage":
\* the link is kept (None if the lookup raised), notify_track_users reads the
\* recipients in one session and enters its loop
AfterPermalink(e, res, rows) ==
    LET users == SelectByTrack(rows, e.track)
    IN  [e EXCEPT !.slack_link = IF res = Raised THEN None ELSE res,
                  !.users = users,
                  !.pc = IF users = <<>> THEN "done" ELSE "sending"]

PermalinkReturn(res) ==
    /\ ev.pc = "permalink"
    /\ ev' = AfterPermalink(ev, res, store)
    /\ UNCHANGED <<store, reg, lastWrite, prevWrite, submitted, nRegs, nEvents, call>>

\* a loop whose send is not wrapped in try/except
AfterSendUncaught(e, ok) ==
    LET u        == e.users[Len(e.attempts) + 1]
        attempts == Append(e.attempts,
                           [user |-> u, text |-> DmText(e.title, e.summary, e.slack_link),
                            ok |-> ok])
    IN  [e EXCEPT !.attempts = attempts,
                  !.pc = IF ~ok THEN "raised"
                         ELSE IF Len(attempts) = Len(e.users) THEN "done" ELSE "sending"]

\* a loop that reads the subscribers of the track again after every send
AfterSendRequery(e, ok) ==
    LET u        == e.users[Len(e.attempts) + 1]
        attempts == Append(e.attempts,
                           [user |-> u, text |-> DmText(e.title, e.summary, e.slack_link),
                            ok |-> ok])
        users    == SelectByTrack(store, e.track)
    IN  [e EXCEPT !.attempts = attempts, !.users = users,
                  !.pc = IF Len(attempts) >= Len(users) THEN "done" ELSE "sending"]

\* a loop that puts the recipient of a failed send back in line
AfterSendRetry(e, ok) ==
    LET n        == Len(e.attempts) + 1
        u        == e.users[n]
        attempts == Append(e.attempts,
                           [user |-> u, text |-> DmText(e.title, e.summary, e.slack_link),
                            ok |-> ok])
        users    == IF ok THEN e.users
                    ELSE SubSeq(e.users, 1, n) \o <<u>> \o SubSeq(e.users, n + 1, Len(e.users))
    IN  [e EXCEPT !.attempts = attempts, !.users = users,
                  !.pc = IF Len(attempts) = Len(users) THEN "done" ELSE "sending"]

\* one iteration of the loop of notify_track_users: chat_postMessage to the
\* next recipient returns (ok) or raises (~ok, caught and printed)
AfterSend(e, ok) ==
    LET u        == e.users[Len(e.attempts) + 1]
        attempts == Append(e.attempts,
                           [user |-> u, text |-> DmText(e.title, e.summary, e.slack_link),
                            ok |-> ok])
    IN  [e EXCEPT !.attempts = attempts,
                  !.pc = IF Len(attempts) = Len(e.users) THEN "done" ELSE "sending"]

SendReturn(ok) ==
    /\ ev.pc = "sending"
    /\ ev' = AfterSend(ev, ok)
    /\ UNCHANGED <<store, reg, lastWrite, prevWrite, submitted, nRegs, nEvents, call>>

Next ==
    \/ \E s \in RegSlots, u \in Users, p \in Submissions : ViewSubmission(s, u, p)
    \/ \E s \in RegSlots : SaveSubmission(s)
    \/ \E raw \in EventTexts, subtype \in EventSubtypes, hf \in PipelineOutcomes :
          MessageEvent(raw, subtype, hf)
    \/ \E res \in PermalinkOutcomes : PermalinkReturn(res)
    \/ \E ok \in BOOLEAN : SendReturn(ok)

Spec == Init /\ [][Next]_vars


\* awaited Slack calls return or raise, and the event loop resumes the handler
FairSpec ==
    /\ Spec
    /\ WF_vars(\E res \in PermalinkOutcomes : PermalinkReturn(res))
    /\ WF_vars(\E ok \in BOOLEAN : SendReturn(ok))

-----------------------------------------------------------------------------
(* Calls of the classifiers and of src/summarizer.py on given texts *)

KeywordsOf(table) ==
    UNION {{table[i].kwlist[j] : j \in 1..Len(table[i].kwlist)} : i \in 1..Len(table)}

\* a keyword of one entry of the table, a space, a keyword of another entry
PairTexts(table) ==
    UNION {{table[x[1]].kwlist[j] \o " " \o table[x[2]].kwlist[m] :
                j \in 1..Len(table[x[1]].kwlist), m \in 1..Len(table[x[2]].kwlist)} :
           x \in {y \in (1..Len(table)) \X (1..Len(table)) : y[1] # y[2]}}

ClassifierTexts ==
    KeywordsOf(TRACK_KEYWORDS) \cup KeywordsOf(DETECT_TRACK_RULES)
    \cup PairTexts(TRACK_KEYWORDS) \cup PairTexts(DETECT_TRACK_RULES)
    \cup {"", " \n\t ", "hello team", "Weekly standup at noon", "REACT and API"}

ExtractTexts == {
    "Build the API: GET /users",
    "Backend task\nGET /users POST /users GET /users\nDeadline: Friday, 5pm",
    "React page that calls GET /users",
    "Server task without routes. Due - Monday",
    "backend: get /users",
    "Deadline: Friday, 5pm",
    "Write the report",
    "express app PATCH /items/1 then DELETE\n/items/1 and PUT\nSubmission:\nSunday" }

ForcedTracks == {None, "backend", "frontend"}

ExtraTokens == 2    \* tokens of the longest text beyond MAX_TOKENS

\* n one-letter tokens, the k-th of them "a", "b" or "c" by k modulo 3
Tokens(n) == [k \in 1..n |-> CharAt("abc", (k % 3) + 1)]

\* texts around the token maximum of summarize_task: one over it by
\* ExtraTokens, one of exactly MAX_TOKENS tokens on lines of their own
LongTexts == {join(" ", Tokens(MAX_TOKENS + ExtraTokens)), join("\n", Tokens(MAX_TOKENS))}

\* sent is the text handed to the summarizer pipeline by summarize_task
CallRec(fn, text, forced, ai, track, endpoints, deadline, sent, doc) ==
    [fn |-> fn, text |-> text, forced |-> forced, ai |-> ai, track |-> track,
     endpoints |-> endpoints, deadline |-> deadline, sent |-> sent, doc |-> doc]

CallDetectTrackByKeywords(text) ==
    /\ call.fn = "none"
    /\ call' = CallRec("detect_track_by_keywords", text, None, None,
                       detect_track_by_keywords(text), <<>>, "", "", "")
    /\ UNCHANGED <<store, reg, ev, lastWrite, prevWrite, submitted, nRegs, nEvents>>

CallDetectTrack(text) ==
    /\ call.fn = "none"
    /\ call' = CallRec("detect_track", text, None, None, detect_track(text), <<>>, "", "", "")
    /\ UNCHANGED <<store, reg, ev, lastWrite, prevWrite, submitted, nRegs, nEvents>>

CallExtractStructuredInfo(text) ==
    /\ call.fn = "none"
    /\ LET r == extract_structured_info(text)
       IN  call' = CallRec("extract_structured_info", text, None, None,
                           r.track, r.endpoints, r.deadline, "", "")
    /\ UNCHANGED <<store, reg, ev, lastWrite, prevWrite, submitted, nRegs, nEvents>>

CallSummarizeTask(text, forced, ai) ==
    /\ call.fn = "none"
    /\ call' = CallRec("summarize_task", text, forced, ai, None, <<>>, "",
                       TruncateTask(text), summarize_task(text, forced, ai))
    /\ UNCHANGED <<store, reg, ev, lastWrite, prevWrite, submitted, nRegs, nEvents>>

Return ==
    /\ call.fn # "none"
    /\ call' = NoCall
    /\ UNCHANGED <<store, reg, ev, lastWrite, prevWrite, submitted, nRegs, nEvents>>

TextNext ==
    \/ \E text \in ClassifierTexts \cup ExtractTexts : CallDetectTrackByKeywords(text)
    \/ \E text \in ClassifierTexts \cup ExtractTexts : CallDetectTrack(text)
    \/ \E text \in ExtractTexts : CallExtractStructuredInfo(text)
    \/ \E text \in ExtractTexts, forced \in ForcedTracks, ai \in PipelineOutcomes :
          CallSummarizeTask(text, forced, ai)
    \/ \E text \in LongTexts, ai \in PipelineOutcomes : CallSummarizeTask(text, None, ai)
    \/ Return

TextSpec == Init /\ [][TextNext]_vars

-----------------------------------------------------------------------------
(* Properties *)

Range(f) == {f[k] : k \in DOMAIN f}

RowsOf(u) == {k \in 1..Len(store) : store[k].user_id = u}

C2_FailureIsolation ==
    /\ ev.pc # "raised"
    /\ Len(ev.attempts) <= Len(ev.users)
    /\ \A k \in 1..Len(ev.attempts) : ev.attempts[k].user = ev.users[k]
    /\ ev.pc = "done" => Len(ev.attempts) = Len(ev.users)

\* a fanout has ended in which a send failed and a later recipient was still tried
C2_Witness ==
    /\ ev.pc = "done"
    /\ \E k \in 1..Len(ev.attempts) : ~ev.attempts[k].ok /\ k < Len(ev.attempts)
    /\ \E k \in 1..Len(ev.attempts) : ev.attempts[k].ok

\* C3: the table holds at most one row per user_id, and that row holds the
\* track, contact and email of the submission saved last for the user.
C3_OneRecordPerUserLastWriteWins ==
    \A u \in Users :
        /\ Cardinality(RowsOf(u)) <= 1
        /\ lastWrite[u] = <<>> => RowsOf(u) = {}
        /\ lastWrite[u] # <<>> =>
              \E k \in RowsOf(u) :
                  <<store[k].track, store[k].contact, store[k].email>> = lastWrite[u]

\* two submissions for one user were in flight together: the second one
\* received has been saved while the other, with another payload, still waits
C3_Witness ==
    \E u \in Users, s \in RegSlots :
        /\ nRegs = 2
        /\ reg[s].pc = "acked" /\ reg[s].user_id = u /\ reg[s].track # None
        /\ lastWrite[u] # <<>>
        /\ lastWrite[u] # <<reg[s].track, reg[s].contact, reg[s].email>>
        /\ Cardinality(RowsOf(u)) = 1

\* C4: a submission whose track is no option of the form is rejected and
\* stores nothing, so every stored track is a track of the closed catalog.
C4_MalformedSubmissionRejected ==
    \A k \in 1..Len(store) : store[k].track \in FORM_TRACKS

\* C5: the text of every delivery attempt is the assembled summary document:
\* it holds the deadline line, the endpoints section and the deliverables
\* checklist of the classified track.
C5_NotificationIsSummaryDocument ==
    \A k \in 1..Len(ev.attempts) :
        /\ Contains(ev.attempts[k].text, "*Deadline:* " \o ExtractDeadline(ev.text))
        /\ Contains(ev.attempts[k].text, "*Key Endpoints (if any):*")
        /\ Contains(ev.attempts[k].text, "*Key Deliverables:*\n" \o DeliverablesText(ev.track))

\* the whole matches of the endpoint pattern, in order of appearance
WholeMatches(t) ==
    LET ms == EndpointMatches(t, 1) IN [k \in 1..Len(ms) |-> ms[k].group0]

\* C6: extract_structured_info gives no endpoints for a text that is not
\* classified backend, and for a backend text every "VERB path" match, verb
\* and path together, in order of appearance with duplicates kept.
C6_EndpointsAreFullSignatures ==
    call.fn = "extract_structured_info" =>
        /\ call.track # "backend" => call.endpoints = <<>>
        /\ call.track = "backend" => call.endpoints = WholeMatches(call.text)

\* the entries of a classifier table with a keyword that occurs in text t
MatchingEntries(table, t) ==
    {i \in 1..Len(table) : \E j \in 1..Len(table[i].kwlist) : Contains(t, table[i].kwlist[j])}

TableOf(fn) == IF fn = "detect_track" THEN DETECT_TRACK_RULES ELSE TRACK_KEYWORDS

\* C7: for a text with keywords of several tracks, each classifier returns the
\* track that comes first in the order of its table.
C7_FirstMatchInPriorityOrder ==
    call.fn \in {"detect_track_by_keywords", "detect_track"} =>
        LET table == TableOf(call.fn)
            hits  == MatchingEntries(table, lower(call.text))
        IN  Cardinality(hits) >= 2 =>
                \E i \in hits : /\ \A k \in hits : i <= k
                                /\ call.track = table[i].track

\* a text whose first word is a frontend keyword and whose second word is a
\* backend keyword has been classified backend by detect_track_by_keywords
C7_Witness ==
    /\ call.fn = "detect_track_by_keywords"
    /\ call.text = "react api"
    /\ MatchingEntries(TRACK_KEYWORDS, call.text) = {1, 2}
    /\ call.track = "backend"

\* C8: a text with keywords of exactly one track classifies to that track, and
\* the text that is just a keyword of the table classifies to the track that
\* lists the keyword.
C8_ListedKeywordClassifiesToItsTrack ==
    call.fn \in {"detect_track_by_keywords", "detect_track"} =>
        LET table == TableOf(call.fn)
            hits  == MatchingEntries(table, lower(call.text))
        IN  /\ \A i \in hits : hits = {i} => call.track = table[i].track
            /\ \A i \in 1..Len(table) :
                  call.text \in Range(table[i].kwlist) => call.track = table[i].track

\* the texts of the model without "@channel", "stage" or "task"
SignalFree(t) ==
    ~Contains(t, "@channel") /\ ~Contains(lower(t), "stage") /\ ~Contains(lower(t), "task")

TextsWithoutSignal ==
    {t \in {IF raw = None THEN "" ELSE raw : raw \in EventTexts} \cup {""} : SignalFree(t)}

\* C9: an event with a subtype or without an announcement signal is neither
\* classified nor notified, an event the classifier finds no track for is not
\* notified, and both end without raising.
C9_OnlyAcceptedAnnouncementsNotify ==
    /\ (ev.subtype # None \/ ev.text \in TextsWithoutSignal) =>
          /\ ~ev.classified
          /\ ev.users = <<>> /\ ev.attempts = <<>>
          /\ ev.pc \in {"idle", "done"}
    /\ (ev.classified /\ ev.track = None) =>
          /\ ev.users = <<>> /\ ev.attempts = <<>>
          /\ ev.pc = "done"

\* an edited announcement for backend was ignored although a backend
\* subscriber is registered
C9_Witness ==
    /\ ev.pc = "done"
    /\ ev.subtype # None
    /\ ev.text = "@channel Backend task: build the API"
    /\ \E k \in 1..Len(store) : store[k].track = "backend"
    /\ ev.attempts = <<>>

\* C10: once an announcement is accepted and classified, the handler does not
\* raise and, whatever the summarizer and the permalink lookup did, it ends
\* with a delivery attempt to every subscriber matched for the track.
C10_DeliveryDespiteExternalFailures ==
    /\ [](ev.classified /\ ev.track # None => ev.pc \in {"permalink", "sending", "done"})
    /\ (ev.pc = "permalink") ~>
          (ev.pc = "done" /\ \A k \in 1..Len(ev.users) :
                                \E m \in 1..Len(ev.attempts) : ev.attempts[m].user = ev.users[k])

\* a fanout has ended after the summarizer raised (the summary is the
\* fallback, the start of the text) and the permalink lookup gave no link
C10_Witness ==
    /\ ev.pc = "done"
    /\ ev.classified /\ ev.track # None
    /\ ev.summary = strip(ev.text)
    /\ ev.slack_link = None
    /\ ev.attempts # <<>>
    /\ Len(ev.attempts) = Len(ev.users)

-----------------------------------------------------------------------------
(* The sections of a summary document *)

\* 1-based index of the first occurrence of sub in s, 0 if there is none
IndexOf(s, sub) ==
    IF Contains(s, sub) THEN CHOOSE i \in 1..Len(s) :
                                /\ StartsAt(s, sub, i)
                                /\ \A j \in 1..(i - 1) : ~StartsAt(s, sub, j)
    ELSE 0

\* what follows the first occurrence of heading in doc, None without one
AfterHeading(doc, heading) ==
    IF IndexOf(doc, heading) = 0 THEN None
    ELSE From(doc, IndexOf(doc, heading) + Len(heading))

\* what stands between heading and the next occurrence of stop
SectionOf(doc, heading, stop) ==
    LET rest == AfterHeading(doc, heading)
    IN  IF rest = None \/ IndexOf(rest, stop) = 0 THEN None
        ELSE SubSeq(rest, 1, IndexOf(rest, stop) - 1)

TitleOf(doc)        == SectionOf(doc, "", "\n\n*Summary:* ")
SummaryOf(doc)      == SectionOf(doc, "*Summary:* ", "\n\n*Deadline:* ")
DeadlineOf(doc)     == SectionOf(doc, "*Deadline:* ", "\n\n*Key Endpoints (if any):*\n")
EndpointsOf(doc)    == SectionOf(doc, "*Key Endpoints (if any):*\n", "\n\n*Key Deliverables:*")
DeliverablesOf(doc) == AfterHeading(doc, "*Key Deliverables:*\n")

-----------------------------------------------------------------------------
PayloadOf(r) == <<r.track, r.contact, r.email>>

\* the step of slot s is the save of a submission that has a track
IsSaveOf(s) == reg[s].pc = "acked" /\ reg[s].track # None /\ reg'[s].pc = "idle"

\* C12: registration replaces and never merges: whatever the record of the
\* user held before, after the save of a submission the user has one record
\* and it holds exactly the track, contact and email of that submission (an
\* email absent from it is stored as absent); no other record changes.
C12_RegistrationReplaces ==
    [][\A s \in RegSlots :
          IsSaveOf(s) =>
              LET u   == reg[s].user_id
                  own == {k \in 1..Len(store') : store'[k].user_id = u}
              IN  /\ Cardinality(own) = 1
                  /\ \A k \in own : PayloadOf(store'[k]) = PayloadOf(reg[s])
                  /\ \A k \in 1..Len(store) : store[k].user_id # u => store'[k] = store[k]]_vars

\* a user registered for frontend by email with an address, then for backend
\* by Slack without one: the record holds the second payload, email cleared
C12_Witness ==
    \E u \in Users :
        /\ prevWrite[u] = <<"frontend", "email", "user@example.com">>
        /\ lastWrite[u] = <<"backend", "slack", None>>
        /\ Cardinality(RowsOf(u)) = 1
        /\ \A k \in RowsOf(u) : PayloadOf(store[k]) = <<"backend", "slack", None>>

\* C18: the upsert is idempotent: the save of a submission whose payload is
\* the payload of the user's last committed submission leaves the whole store
\* as it was after that submission.
C18_UpsertIdempotent ==
    [][\A s \in RegSlots :
          (IsSaveOf(s) /\ lastWrite[reg[s].user_id] = PayloadOf(reg[s])) =>
              store' = store]_vars

\* one payload was committed twice in a row for a user, and nothing else was
C18_Witness ==
    \E u \in Users :
        /\ lastWrite[u] # <<>>
        /\ prevWrite[u] = lastWrite[u]
        /\ Len(store) = 1
        /\ PayloadOf(store[1]) = lastWrite[u] /\ store[1].user_id = u /\ store[1].id = 1

-----------------------------------------------------------------------------
TracksOf(table) == {table[i].track : i \in 1..Len(table)}

\* C13: the track catalogs are in lockstep: every track a classifier returns
\* is an option of the registration form and has its own entry in the
\* deliverables catalog (the no-match results None and "general" aside).
C13_TrackCatalogsInLockstep ==
    (call.fn \in {"detect_track_by_keywords", "detect_track"}
        /\ call.track \notin {None, "general"}) =>
        /\ call.track \in TracksOf(TableOf(call.fn))
        /\ call.track \in FORM_TRACKS
        /\ call.track \in DOMAIN DELIVERABLES

\* the track the document of a summarize_task call is written for
DocTrack == IF call.forced \in {None, ""} THEN detect_track(call.sent) ELSE call.forced

\* C14: the document tells "the endpoint scan did not run" from "the scan ran
\* and found nothing": a document for a track other than backend carries the
\* not-applicable marker, and a document for backend whose text holds no
\* endpoint carries another marker, never the not-applicable one.
C14_ScanOutcomesDistinguished ==
    call.fn = "summarize_task" =>
        /\ DocTrack # "backend" => EndpointsOf(call.doc) = "_Not applicable_"
        /\ (DocTrack = "backend" /\ WholeMatches(call.sent) = <<>>) =>
              EndpointsOf(call.doc) \notin {None, "_Not applicable_"}

-----------------------------------------------------------------------------
NoMatchResult(fn) == IF fn = "detect_track" THEN "general" ELSE None

\* C15: a text that holds no keyword of any entry of the classifier's table,
\* the empty and the whitespace-only text among them, gets the no-match result
\* of the classifier (None from detect_track_by_keywords, "general" from
\* detect_track) and never a track.
C15_NoKeywordNoTrack ==
    (call.fn \in {"detect_track_by_keywords", "detect_track"}
        /\ MatchingEntries(TableOf(call.fn), lower(call.text)) = {}) =>
        call.track = NoMatchResult(call.fn)

C15_Witness ==
    /\ call.fn = "detect_track_by_keywords"
    /\ call.text = " \n\t "
    /\ MatchingEntries(TRACK_KEYWORDS, lower(call.text)) = {}
    /\ call.track = None

\* what the sentence of C16 gives for text t: the rest of the line of the
\* first label, without the separator that follows the label, trimmed
DeadlineOnLabelLine(t) ==
    LET starts == {i \in 1..Len(t) : LabelsAt(t, i) # <<>>}
    IN  IF starts = {} THEN "Not specified"
        ELSE LET i    == CHOOSE k \in starts : \A m \in starts : k <= m
                 a    == i + Len(LabelsAt(t, i)[1])
                 rest == SubSeq(t, a, SkipToNewline(t, a) - 1)
             IN  strip(From(rest, SkipSeparators(rest, SkipSpace(rest, 1))))

\* C16: the deadline is what follows the first label (deadline, due or
\* submission, in any case) and its colon or dash separator up to the end of
\* the line the label stands on, trimmed; "Not specified" without a label.
C16_DeadlineOnLabelLine ==
    call.fn = "extract_structured_info" => call.deadline = DeadlineOnLabelLine(call.text)

-----------------------------------------------------------------------------
\* the attempts made so far, for the event in hand, to deliver to user u
AttemptsTo(u) == {k \in 1..Len(ev.attempts) : ev.attempts[k].user = u}

\* C17: while one announcement is processed every user gets at most one
\* delivery attempt, whether it succeeded or failed: a failed send is not
\* tried again.
C17_FanoutAtMostOnce ==
    \A u \in Users : Cardinality(AttemptsTo(u)) <= 1

\* a fanout to two subscribers has ended with the last send failed
C17_Witness ==
    /\ ev.pc = "done"
    /\ Len(ev.attempts) = 2
    /\ ~ev.attempts[2].ok
    /\ Cardinality(AttemptsTo(ev.attempts[2].user)) = 1

-----------------------------------------------------------------------------
\* C19: the text summarize_task hands to the summarizer has at most
\* MAX_TOKENS whitespace-delimited tokens, they are the first tokens of the
\* raw text in order, and a raw text of at most MAX_TOKENS tokens is handed
\* over as it is, whitespace included.
C19_TruncationKeepsFirstTokens ==
    call.fn = "summarize_task" =>
        LET raw  == split(call.text)
            sent == split(call.sent)
        IN  /\ Len(sent) <= MAX_TOKENS
            /\ sent = SubSeq(raw, 1, Min(MAX_TOKENS, Len(raw)))
            /\ Len(raw) <= MAX_TOKENS => call.sent = call.text

\* a text of more than MAX_TOKENS tokens has been cut to its first MAX_TOKENS
C19_Witness ==
    /\ call.fn = "summarize_task"
    /\ Len(split(call.text)) = MAX_TOKENS + ExtraTokens
    /\ Len(split(call.sent)) = MAX_TOKENS
    /\ call.sent = Take(call.text, Len(call.sent))
    /\ SummaryOf(call.doc) = call.ai

\* for every match of the endpoint pattern in the text of the call, the start
\* of its bullet in the endpoints section: the bullet mark and the verb
VerbBullets ==
    LET ms == EndpointMatches(call.sent, 1) IN {"- '" \o ms[k].group1 : k \in 1..Len(ms)}

\* C20: a forced track decides the whole document: the title and the
\* deliverables checklist are those of the forced track, and with the forced
\* track backend the endpoints section lists every endpoint of the text,
\* whatever track the text alone classifies to.
C20_ForcedTrackDecidesDocument ==
    (call.fn = "summarize_task" /\ call.forced # None) =>
        /\ TitleOf(call.doc) = "*New " \o capitalize(call.forced) \o " Task Summary*"
        /\ DeliverablesOf(call.doc) = DeliverablesText(call.forced)
        /\ call.forced = "backend" =>
              \A b \in VerbBullets : Contains(EndpointsOf(call.doc), b)
        /\ call.forced # "backend" => EndpointsOf(call.doc) = "_Not applicable_"

-----------------------------------------------------------------------------
\* the users with a row of track t in the table
SubscribersNow(t) == {store[k].user_id : k \in {m \in 1..Len(store) : store[m].track = t}}

\* C21: the recipients of a fanout are a snapshot: they are the subscribers
\* of the track in the store when notify_track_users starts; while the fanout
\* waits on a send no step changes them, a registration that commits then
\* included; each send goes to the next recipient of the snapshot; and no
\* step of the announcement handler changes the store.
C21_RecipientsAreSnapshot ==
    [][/\ (ev.pc = "permalink" /\ ev' # ev) => Range(ev'.users) = SubscribersNow(ev.track)
       /\ ev.pc = "sending" => ev'.users = ev.users
       /\ (ev.pc = "sending" /\ ev' # ev) =>
              /\ Len(ev'.attempts) = Len(ev.attempts) + 1
              /\ ev'.attempts[Len(ev'.attempts)].user = ev.users[Len(ev.attempts) + 1]
       /\ ev' # ev => store' = store]_vars

\* the fanout waits on the send to a recipient of its snapshot whose record
\* has meanwhile been moved to another track by a committed registration
C21_Witness ==
    /\ ev.pc = "sending"
    /\ LET u == ev.users[Len(ev.attempts) + 1]
       IN  /\ u \notin SubscribersNow(ev.track)
           /\ prevWrite[u] # <<>> /\ prevWrite[u][1] = ev.track
           /\ lastWrite[u][1] # ev.track

====
